---------------------------- MODULE Spec2Model ----------------------------
(***************************************************************************)
(* A model of src/app/lib/git/hooks/useGit.ts:                             *)
(*   - the useGit hook (state, effect, memoised gitClone callback),        *)
(*   - the filesystem adapter getFs and pathUtils,                         *)
(*   - the GitHub push dialog of the Workbench component.                  *)
(* JavaScript strings are sequences of one-character strings, so that      *)
(* split, trim, startsWith, endsWith and the regular expression test are   *)
(* computed character by character.                                        *)
(***************************************************************************)
EXTENDS Integers, Sequences, FiniteSets, Bags, TLC

VARIABLES
    booted,       \* webcontainerPromise has resolved and its .then callback ran
    hookState,    \* committed React state of useGit: webcontainer, fs, ready
    queued,       \* the renders scheduled by setState: for each the updates it applies
    returned,     \* what the last render of useGit returned: ready, gitClone
    fileData,     \* fileData.current: relative path -> {data, encoding}
    calls,        \* the gitClone invocations, one record per call slot
    fsArg,        \* the path the git library hands to the adapter operations
    fsCalls,      \* the adapter operations called so far, a bag: the call each
                  \* made on webcontainer.fs and how it has ended
    form,         \* Workbench state of the GitHub dialog
    inFlight,     \* pushToGitHub promises not yet settled
    out           \* what the last Workbench handler step did (toast, push call)

pushVars == <<form, inFlight, out>>
vars == <<booted, hookState, queued, returned, fileData, calls, fsArg,
          fsCalls, form, inFlight, out>>

(***************************************************************************)
(* Bounds of the model.                                                    *)
(***************************************************************************)
MaxSegs == 2        \* segments after the root of a path handed to the adapter
MaxCalls == 2       \* gitClone invocations
MaxWrites == 2      \* writeFile calls of one git.clone
MaxAuthFailures == 1 \* onAuthFailure calls of one git.clone
MaxFsOps == 2       \* adapter operations the git library calls
MaxInFlight == 2    \* overlapping pushToGitHub calls
MaxBranchLen == 2   \* characters typed into the branch name field

\* an optional object is the empty set or a singleton; an optional string is
\* the string or Undefined
None == {}
Some(v) == {v}
The(s) == CHOOSE x \in s : TRUE
Undefined == "undefined"

(***************************************************************************)
(* Strings.                                                                *)
(***************************************************************************)
StartsWith(s, prefix) ==
    /\ Len(prefix) <= Len(s)
    /\ SubSeq(s, 1, Len(prefix)) = prefix

EndsWith(s, suffix) ==
    /\ Len(suffix) <= Len(s)
    /\ SubSeq(s, Len(s) - Len(suffix) + 1, Len(s)) = suffix

\* String.prototype.split('/'): the pieces between the slashes, empty ones kept
RECURSIVE SplitFrom(_, _)
SplitFrom(p, piece) ==
    IF p = <<>> THEN <<piece>>
    ELSE IF Head(p) = "/" THEN <<piece>> \o SplitFrom(Tail(p), <<>>)
    ELSE SplitFrom(Tail(p), Append(piece, Head(p)))

SplitSlash(p) == SplitFrom(p, <<>>)

\* Array.prototype.join('/')
RECURSIVE JoinSlash(_)
JoinSlash(parts) ==
    IF parts = <<>> THEN <<>>
    ELSE IF Len(parts) = 1 THEN parts[1]
    ELSE parts[1] \o <<"/">> \o JoinSlash(Tail(parts))

\* p.replace(/\/+$/, '')
RECURSIVE StripTrailingSlashes(_)
StripTrailingSlashes(p) ==
    IF p # <<>> /\ p[Len(p)] = "/"
    THEN StripTrailingSlashes(SubSeq(p, 1, Len(p) - 1))
    ELSE p

\* Array.prototype.filter(Boolean) on an array of strings
RECURSIVE FilterBoolean(_)
FilterBoolean(parts) ==
    IF parts = <<>> THEN <<>>
    ELSE IF Head(parts) = <<>> THEN FilterBoolean(Tail(parts))
    ELSE <<Head(parts)>> \o FilterBoolean(Tail(parts))

DotDot == <<".", ".">>

(***************************************************************************)
(* pathUtils.relative                                                      *)
(***************************************************************************)
normalizePathParts(p) == FilterBoolean(SplitSlash(StripTrailingSlashes(p)))

Min(a, b) == IF a <= b THEN a ELSE b

\* the for loop: the length of the longest common prefix of the two arrays
commonLength(fromParts, toParts) ==
    LET minLength == Min(Len(fromParts), Len(toParts))
        differ == {i \in 1..minLength : fromParts[i] # toParts[i]}
    IN IF differ = {} THEN minLength
       ELSE (CHOOSE i \in differ : \A j \in differ : i <= j) - 1

\* Array.prototype.filter(Boolean) left out of normalizePathParts
relativeNoFilter(from, to) ==
    IF from = <<>> \/ to = <<>> THEN <<".">>
    ELSE LET fromParts == SplitSlash(StripTrailingSlashes(from))
             toParts == SplitSlash(StripTrailingSlashes(to))
             common == commonLength(fromParts, toParts)
             upCount == Len(fromParts) - common
             remainingPath == SubSeq(toParts, common + 1, Len(toParts))
             relativeParts == [i \in 1..upCount |-> DotDot] \o remainingPath
         IN IF relativeParts = <<>> THEN <<".">> ELSE JoinSlash(relativeParts)

relative(from, to) ==
    IF from = <<>> \/ to = <<>> THEN <<".">>
    ELSE LET fromParts == normalizePathParts(from)
             toParts == normalizePathParts(to)
             common == commonLength(fromParts, toParts)
             upCount == Len(fromParts) - common
             remainingPath == SubSeq(toParts, common + 1, Len(toParts))
             relativeParts == [i \in 1..upCount |-> DotDot] \o remainingPath
         IN IF relativeParts = <<>> THEN <<".">> ELSE JoinSlash(relativeParts)

(***************************************************************************)
(* Inputs.                                                                 *)
(***************************************************************************)
\* webcontainer.workdir
Workdir == <<"/", "w", "/", "p">>

\* the container webcontainerPromise resolves with
Container == [workdir |-> Workdir]

\* segments of the paths handed to the adapter; the empty one gives "//"
\* and a trailing "/"
SegAlphabet == {<<"w">>, DotDot, <<>>}

SegLists == UNION {[1..n -> SegAlphabet] : n \in 0..MaxSegs}

\* the paths start at "/" or at the workdir
Roots == {<<>>, Workdir}

\* the root, then "/" + segments.join("/")
PathOf(root, segs) == IF segs = <<>> THEN root ELSE root \o <<"/">> \o JoinSlash(segs)

FsPaths == {PathOf(root, segs) : root \in Roots, segs \in SegLists}

\* files isomorphic-git writes below dir
CloneFiles == {<<"a">>, <<"b">>}
Datas == {"d1", "d2"}
Encodings == {"utf8", Undefined}

GitAt == <<"g", "i", "t", "@">>
Urls == {<<"g", "i", "t", "@", "h">>, <<"h", "t", "t", "p">>}

NotInitialized == "Webcontainer not initialized"
SshNotSupported == "SSH protocol is not supported. Please use HTTPS URL instead."
FailedToClone == "Failed to clone repository"
AuthToast == "Error Authenticating with host"

\* what git.clone may reject with: an Error, or something that is no Error
CloneErrors == {[isError |-> TRUE, message |-> "HTTP Error: 401"],
                [isError |-> FALSE, message |-> "cancelled"]}

EmptyMap == [p \in {} |-> Undefined]
Put(m, k, v) == [p \in (DOMAIN m) \cup {k} |-> IF p = k THEN v ELSE m[p]]
Last(s) == s[Len(s)]

(***************************************************************************)
(* useGit: state, effect and render.                                       *)
(***************************************************************************)
\* the closure of the async function given to useCallback
Closure(st) == [webcontainer |-> st.webcontainer, fs |-> st.fs, ready |-> st.ready]

InitState == [webcontainer |-> None, fs |-> None, ready |-> FALSE]

IdleCall == [pc |-> "idle", url |-> <<>>, readyFlag |-> FALSE,
             cb |-> Closure(InitState), didReset |-> FALSE, cloneStarted |-> FALSE, wrote |-> EmptyMap,
             nWrites |-> 0, nAuthFail |-> 0, toasts |-> <<>>, thrown |-> None,
             result |-> None]

InitCommon ==
    /\ booted = FALSE
    /\ hookState = InitState
    /\ queued = <<>>
    /\ returned = <<[ready |-> FALSE, gitClone |-> Closure(InitState)]>>
    /\ fileData = EmptyMap
    /\ calls = [c \in 1..MaxCalls |-> IdleCall]
    /\ fsCalls = EmptyBag
    \* "r" stands for the initial 'bolt-generated-project'
    /\ form = [githubRepoName |-> <<"r">>, githubUsername |-> <<>>,
               githubToken |-> <<>>, isPrivateRepo |-> FALSE,
               isNewBranch |-> FALSE, newBranchName |-> <<>>,
               isGitHubPushing |-> FALSE, showGitHubDialog |-> FALSE]
    /\ inFlight = 0
    /\ out = None

Init ==
    /\ InitCommon
    /\ fsArg = <<>>

\* the adapter is checked on every path of FsPaths
InitFs ==
    /\ InitCommon
    /\ fsArg \in FsPaths

\* getFs(webcontainer, record): the adapter closes over the container
getFs(container) == [workdir |-> container.workdir]

\* the renders the updates of one callback lead to: one render for all of
\* them when React batches the updates made in a promise callback, one render
\* per setState when it does not
Schedule(updates, batched) ==
    IF batched THEN <<updates>> ELSE [k \in 1..Len(updates) |-> <<updates[k]>>]

\* webcontainerPromise.then(...); whether the root batches is not the hook's
\* choice
EffectResolve(batched) ==
    /\ ~booted
    /\ booted' = TRUE
    /\ LET container == Container
           updates == <<[field |-> "webcontainer", value |-> Some(container)],
                        [field |-> "fs", value |-> Some(getFs(container))],
                        [field |-> "ready", value |-> TRUE]>>
       IN queued' = queued \o Schedule(updates, batched)
    /\ fileData' = EmptyMap
    /\ UNCHANGED <<hookState, returned, calls, fsArg, fsCalls, pushVars>>

RECURSIVE ApplyUpdates(_, _)
ApplyUpdates(st, q) ==
    IF q = <<>> THEN st
    ELSE ApplyUpdates([st EXCEPT ![Head(q).field] = Head(q).value], Tail(q))

\* the dependency array [webcontainer]
depsChanged(prev, next) == prev.webcontainer # next.webcontainer

\* a render of the component: it applies the updates of the next scheduled
\* render, and useCallback keeps the previous callback unless webcontainer
\* changed
Render ==
    /\ queued # <<>>
    /\ LET next == ApplyUpdates(hookState, Head(queued))
           gitClone == IF depsChanged(hookState, next)
                       THEN Closure(next)
                       ELSE Last(returned).gitClone
       IN /\ hookState' = next
          /\ returned' = Append(returned, [ready |-> next.ready, gitClone |-> gitClone])
    /\ queued' = Tail(queued)
    /\ UNCHANGED <<booted, fileData, calls, fsArg, fsCalls, pushVars>>

(***************************************************************************)
(* getFs: the adapter operations.  Each is an async function: up to its    *)
(* await it computes the relative path and calls webcontainer.fs, and it   *)
(* goes on when that call settles.  fsCalls holds one record per operation *)
(* called: the operation and the path it was given, the container method,  *)
(* path and options it used, and where the operation stands.               *)
(***************************************************************************)
Enoent == "ENOENT"
\* whatever the container call rejected with
Rejected == "rejected"

FsCall(op, path, relativePath, method, containerPath, data, encoding, recursive, withFileTypes) ==
    [op |-> op, arg |-> path, relativePath |-> relativePath, method |-> method,
     path |-> containerPath, data |-> data, encoding |-> encoding,
     recursive |-> recursive, withFileTypes |-> withFileTypes,
     pc |-> "awaiting", threw |-> Undefined]

\* the operation is added to those called
Called(call) == fsCalls (+) SetToBag({call})

\* {...options, recursive: true}, {recursive: true, ...options}, {...(options || {})}
Recursives == {Undefined, "false"}
OrElse(option, default) == IF option = Undefined THEN default ELSE option

readFile(fs, path, encoding) ==
    LET relativePath == relative(fs.workdir, path)
    IN fsCalls' = Called(FsCall("readFile", path, relativePath, "readFile",
                                         relativePath, Undefined, encoding,
                                         Undefined, Undefined))

writeFile(fs, path, data, encoding) ==
    LET relativePath == relative(fs.workdir, path)
    IN /\ fileData' = Put(fileData, relativePath, [data |-> data, encoding |-> encoding])
       /\ fsCalls' = Called(FsCall("writeFile", path, relativePath, "writeFile",
                                            relativePath, data, encoding,
                                            Undefined, Undefined))

mkdir(fs, path, recursive) ==
    LET relativePath == relative(fs.workdir, path)
    IN fsCalls' = Called(FsCall("mkdir", path, relativePath, "mkdir",
                                         relativePath, Undefined, Undefined,
                                         "true", Undefined))

readdir(fs, path) ==
    LET relativePath == relative(fs.workdir, path)
    IN fsCalls' = Called(FsCall("readdir", path, relativePath, "readdir",
                                         relativePath, Undefined, Undefined,
                                         Undefined, Undefined))

rm(fs, path, recursive) ==
    LET relativePath == relative(fs.workdir, path)
    IN fsCalls' = Called(FsCall("rm", path, relativePath, "rm",
                                         relativePath, Undefined, Undefined,
                                         recursive, Undefined))

rmdir(fs, path, recursive) ==
    LET relativePath == relative(fs.workdir, path)
    IN fsCalls' = Called(FsCall("rmdir", path, relativePath, "rm",
                                         relativePath, Undefined, Undefined,
                                         OrElse(recursive, "true"), Undefined))

unlink(fs, path) ==
    LET relativePath == relative(fs.workdir, path)
    IN fsCalls' = Called(FsCall("unlink", path, relativePath, "rm",
                                         relativePath, Undefined, Undefined,
                                         "false", Undefined))

\* pathUtils.dirname
dirname(path) ==
    IF path = <<>> \/ \A i \in 1..Len(path) : path[i] # "/" THEN <<".">>
    ELSE LET parts == SplitSlash(StripTrailingSlashes(path))
             joined == JoinSlash(SubSeq(parts, 1, Len(parts) - 1))
         IN IF joined = <<>> THEN <<"/">> ELSE joined

\* pathUtils.basename, called without ext
basename(path) ==
    LET parts == SplitSlash(StripTrailingSlashes(path))
    IN parts[Len(parts)]

\* stat up to its await: it asks the container for the parent directory
stat(fs, path) ==
    LET relativePath == relative(fs.workdir, path)
    IN fsCalls' = Called(FsCall("stat", path, relativePath, "readdir",
                                         dirname(relativePath), Undefined, Undefined,
                                         Undefined, "true"))

\* return await getFs(webcontainer, record).promises.stat(path)
lstat(fs, path) == stat(getFs([workdir |-> fs.workdir]), path)

\* return await webcontainer.fs.<method>(...): the operation returns what the
\* container call resolved with, and a rejection passes through
awaitContainer(call, rejects) ==
    [call EXCEPT !.pc = IF rejects THEN "threw" ELSE "returned",
                 !.threw = IF rejects THEN Rejected ELSE Undefined]

\* what webcontainer.fs.readdir answers: it rejects, or lists these names
Listings == {None, Some({}), Some({<<"w">>}), Some({<<"p">>})}

\* stat after its await: it looks the name up in the listing; a rejected
\* readdir and a missing entry both end in the ENOENT error of the catch block
statFind(call, listing) ==
    LET name == basename(call.relativePath)
        found == listing # None /\ name \in The(listing)
    IN [call EXCEPT !.pc = IF found THEN "returned" ELSE "threw",
                    !.threw = IF found THEN Undefined ELSE Enoent]

\* the adapter getFs returns for the container is called with the path fsArg
FsReadFile(encoding) ==
    /\ BagCardinality(fsCalls) < MaxFsOps
    /\ readFile(getFs(Container), fsArg, encoding)
    /\ UNCHANGED <<booted, hookState, queued, returned, fileData, calls, fsArg, pushVars>>

FsWriteFile(data, encoding) ==
    /\ BagCardinality(fsCalls) < MaxFsOps
    /\ writeFile(getFs(Container), fsArg, data, encoding)
    /\ UNCHANGED <<booted, hookState, queued, returned, calls, fsArg, pushVars>>

FsMkdir(recursive) ==
    /\ BagCardinality(fsCalls) < MaxFsOps
    /\ mkdir(getFs(Container), fsArg, recursive)
    /\ UNCHANGED <<booted, hookState, queued, returned, fileData, calls, fsArg, pushVars>>

FsReaddir ==
    /\ BagCardinality(fsCalls) < MaxFsOps
    /\ readdir(getFs(Container), fsArg)
    /\ UNCHANGED <<booted, hookState, queued, returned, fileData, calls, fsArg, pushVars>>

FsRm(recursive) ==
    /\ BagCardinality(fsCalls) < MaxFsOps
    /\ rm(getFs(Container), fsArg, recursive)
    /\ UNCHANGED <<booted, hookState, queued, returned, fileData, calls, fsArg, pushVars>>

FsRmdir(recursive) ==
    /\ BagCardinality(fsCalls) < MaxFsOps
    /\ rmdir(getFs(Container), fsArg, recursive)
    /\ UNCHANGED <<booted, hookState, queued, returned, fileData, calls, fsArg, pushVars>>

FsUnlink ==
    /\ BagCardinality(fsCalls) < MaxFsOps
    /\ unlink(getFs(Container), fsArg)
    /\ UNCHANGED <<booted, hookState, queued, returned, fileData, calls, fsArg, pushVars>>

FsStat ==
    /\ BagCardinality(fsCalls) < MaxFsOps
    /\ stat(getFs(Container), fsArg)
    /\ UNCHANGED <<booted, hookState, queued, returned, fileData, calls, fsArg, pushVars>>

FsLstat ==
    /\ BagCardinality(fsCalls) < MaxFsOps
    /\ lstat(getFs(Container), fsArg)
    /\ UNCHANGED <<booted, hookState, queued, returned, fileData, calls, fsArg, pushVars>>

\* the container call of an operation settles and the operation goes on
FsSettle(call, rejects) ==
    /\ BagIn(call, fsCalls)
    /\ call.pc = "awaiting"
    /\ call.op # "stat"
    /\ fsCalls' = (fsCalls (-) SetToBag({call})) (+) SetToBag({awaitContainer(call, rejects)})
    /\ UNCHANGED <<booted, hookState, queued, returned, fileData, calls, fsArg, pushVars>>

\* the readdir of a stat settles
FsStatSettle(call, listing) ==
    /\ BagIn(call, fsCalls)
    /\ call.pc = "awaiting"
    /\ call.op = "stat"
    /\ fsCalls' = (fsCalls (-) SetToBag({call})) (+) SetToBag({statFind(call, listing)})
    /\ UNCHANGED <<booted, hookState, queued, returned, fileData, calls, fsArg, pushVars>>

NextFs ==
    \/ \E encoding \in Encodings : FsReadFile(encoding)
    \/ \E encoding \in Encodings : FsWriteFile("d1", encoding)
    \/ \E recursive \in Recursives : FsMkdir(recursive)
    \/ FsReaddir
    \/ \E recursive \in Recursives : FsRm(recursive)
    \/ \E recursive \in Recursives : FsRmdir(recursive)
    \/ FsUnlink
    \/ FsStat
    \/ FsLstat
    \/ \E call \in BagToSet(fsCalls), rejects \in BOOLEAN : FsSettle(call, rejects)
    \/ \E call \in BagToSet(fsCalls), listing \in Listings : FsStatSettle(call, listing)

SpecFs == InitFs /\ [][NextFs]_vars

(***************************************************************************)
(* gitClone.  The code up to the first await runs in one step; git.clone   *)
(* then writes files through the adapter, may report failed authentication *)
(* and finally resolves or rejects.                                        *)
(***************************************************************************)
\* the catch block shows the fixed text whatever was thrown
catchGeneric(error) == FailedToClone

\* toast.error(error instanceof Error ? error.message : 'Failed to clone repository')
catchToast(error) == IF error.isError THEN error.message ELSE FailedToClone


\* if (!webcontainer || !fs || !ready)
notInitialized(cb) == cb.webcontainer = None \/ cb.fs = None \/ ~cb.ready

\* a caller invokes the gitClone it got from the i-th render, with url
gitClone(c, i, url) ==
    /\ calls[c].pc = "idle"
    /\ \A d \in 1..(c - 1) : calls[d].pc # "idle"
    /\ i \in 1..Len(returned)
    /\ LET cb == returned[i].gitClone
           call == [calls[c] EXCEPT !.url = url, !.cb = cb,
                                    !.readyFlag = returned[i].ready]
           ssh == [isError |-> TRUE, message |-> SshNotSupported]
       IN IF notInitialized(cb)
          THEN /\ calls' = [calls EXCEPT ![c] =
                              [call EXCEPT !.pc = "failed",
                                           !.thrown = Some([isError |-> FALSE,
                                                            message |-> NotInitialized])]]
               /\ UNCHANGED fileData
          ELSE /\ fileData' = EmptyMap
               /\ IF StartsWith(url, GitAt)
                  THEN calls' = [calls EXCEPT ![c] =
                                   [call EXCEPT !.pc = "failed", !.didReset = TRUE,
                                                !.toasts = <<catchToast(ssh)>>,
                                                !.thrown = Some(ssh)]]
                  ELSE calls' = [calls EXCEPT ![c] =
                                   [call EXCEPT !.pc = "cloning", !.didReset = TRUE,
                                                !.cloneStarted = TRUE]]
    /\ UNCHANGED <<booted, hookState, queued, returned, fsArg, fsCalls, pushVars>>

\* git.clone of call c writes dir/file through fs.promises.writeFile
CloneWriteFile(c, file, data, encoding) ==
    /\ calls[c].pc = "cloning"
    /\ calls[c].nWrites < MaxWrites
    /\ BagCardinality(fsCalls) < MaxFsOps
    /\ LET fs == The(calls[c].cb.fs)
           dir == The(calls[c].cb.webcontainer).workdir
           path == dir \o <<"/">> \o file
       IN /\ writeFile(fs, path, data, encoding)
          /\ calls' = [calls EXCEPT
                         ![c].nWrites = @ + 1,
                         ![c].wrote = Put(@, relative(fs.workdir, path),
                                          [data |-> data, encoding |-> encoding])]
    /\ UNCHANGED <<booted, hookState, queued, returned, fsArg, pushVars>>

\* onAuthFailure
CloneAuthFailure(c) ==
    /\ calls[c].pc = "cloning"
    /\ calls[c].nAuthFail < MaxAuthFailures
    /\ calls' = [calls EXCEPT ![c].nAuthFail = @ + 1,
                              ![c].toasts = Append(@, AuthToast)]
    /\ UNCHANGED <<booted, hookState, queued, returned, fileData, fsArg,
                   fsCalls, pushVars>>

\* git.clone resolved: the entries of fileData.current are copied and returned
CloneResolve(c) ==
    /\ calls[c].pc = "cloning"
    /\ calls' = [calls EXCEPT
                   ![c].pc = "returned",
                   ![c].result = Some([workdir |-> The(calls[c].cb.webcontainer).workdir,
                                       data |-> fileData])]
    /\ UNCHANGED <<booted, hookState, queued, returned, fileData, fsArg,
                   fsCalls, pushVars>>

\* git.clone rejected: the catch block
CloneReject(c, error) ==
    /\ calls[c].pc = "cloning"
    /\ calls' = [calls EXCEPT ![c].pc = "failed",
                              ![c].toasts = Append(@, catchToast(error)),
                              ![c].thrown = Some(error)]
    /\ UNCHANGED <<booted, hookState, queued, returned, fileData, fsArg,
                   fsCalls, pushVars>>

\* the steps of the hook, git.clone writing the files of files with data of datas
NextClone(files, datas) ==
    \/ \E batched \in BOOLEAN : EffectResolve(batched)
    \/ Render
    \/ \E c \in 1..MaxCalls, i \in 1..Len(returned), url \in Urls : gitClone(c, i, url)
    \/ \E c \in 1..MaxCalls, file \in files, data \in datas :
          CloneWriteFile(c, file, data, "utf8")
    \/ \E call \in BagToSet(fsCalls), rejects \in BOOLEAN : FsSettle(call, rejects)
    \/ \E c \in 1..MaxCalls : CloneAuthFailure(c)
    \/ \E c \in 1..MaxCalls : CloneResolve(c)
    \/ \E c \in 1..MaxCalls, error \in CloneErrors : CloneReject(c, error)

\* a repository of one file
Next == NextClone({<<"a">>}, {"d1"})

\* a repository of several files, written more than once
NextData == NextClone(CloneFiles, Datas)

Spec == Init /\ [][Next]_vars

SpecData == Init /\ [][NextData]_vars

(***************************************************************************)
(* Properties of the adapter's path translation.                           *)
(***************************************************************************)
\* the segments of a path: its maximal runs of characters other than "/"
RECURSIVE SegmentsFrom(_, _)
SegmentsFrom(p, cur) ==
    IF p = <<>> THEN (IF cur = <<>> THEN <<>> ELSE <<cur>>)
    ELSE IF Head(p) = "/"
         THEN (IF cur = <<>> THEN <<>> ELSE <<cur>>) \o SegmentsFrom(Tail(p), <<>>)
         ELSE SegmentsFrom(Tail(p), Append(cur, Head(p)))

SegmentsOf(p) == SegmentsFrom(p, <<>>)

IsAbsolute(p) == p # <<>> /\ p[1] = "/"

HasWorkdirPrefix(wd, p) ==
    LET wdSegs == SegmentsOf(wd)
        pSegs == SegmentsOf(p)
    IN /\ IsAbsolute(p)
       /\ Len(wdSegs) <= Len(pSegs)
       /\ SubSeq(pSegs, 1, Len(wdSegs)) = wdSegs

AfterWorkdir(wd, p) ==
    LET pSegs == SegmentsOf(p)
    IN SubSeq(pSegs, Len(SegmentsOf(wd)) + 1, Len(pSegs))

\* following the segments never climbs above the directory one starts in
RECURSIVE StaysBelow(_, _)
StaysBelow(segs, depth) ==
    IF segs = <<>> THEN TRUE
    ELSE IF Head(segs) = DotDot
         THEN depth > 0 /\ StaysBelow(Tail(segs), depth - 1)
         ELSE StaysBelow(Tail(segs), depth + 1)

LiesInside(wd, p) == HasWorkdirPrefix(wd, p) /\ StaysBelow(AfterWorkdir(wd, p), 0)

HasDotDot(segs) == \E i \in 1..Len(segs) : segs[i] = DotDot

ExpectedPath(wd, p) ==
    LET after == AfterWorkdir(wd, p)
    IN IF after = <<>> THEN <<".">> ELSE JoinSlash(after)

\* the operations C1 names
C1Operations == {"readFile", "writeFile", "mkdir", "readdir", "rm", "rmdir", "unlink"}

ContainerMethod(op) ==
    IF op \in {"rm", "rmdir", "unlink"} THEN "rm" ELSE op

\* C1 as stated: for every absolute path inside the workdir each adapter
\* operation calls the container with the segments after the workdir prefix
\* joined by "/" ("." for the workdir itself), and the translated path has no
\* ".." segment.
C1_Original ==
    \A call \in BagToSet(fsCalls) :
        (call.op \in C1Operations /\ LiesInside(Workdir, call.arg)) =>
            /\ call.path = ExpectedPath(Workdir, call.arg)
            /\ ~HasDotDot(SegmentsOf(call.path))

\* C1 amended: for every absolute path whose segments start with the workdir's
\* each adapter operation calls the container method with the segments after
\* the workdir prefix joined by "/" ("." when none follows); the translation
\* adds no ".." segment: the translated path has one only if the path has one
\* after the workdir prefix.
C1_PathTranslation ==
    \A call \in BagToSet(fsCalls) :
        (call.op \in C1Operations /\ HasWorkdirPrefix(Workdir, call.arg)) =>
            /\ call.method = ContainerMethod(call.op)
            /\ call.path = ExpectedPath(Workdir, call.arg)
            /\ HasDotDot(SegmentsOf(call.path))
                  <=> HasDotDot(AfterWorkdir(Workdir, call.arg))

\* unlink of "/w/p//w" reached the container as rm of "w" and returned
C1_Witness ==
    \E call \in BagToSet(fsCalls) :
        /\ call.op = "unlink"
        /\ call.arg = <<"/", "w", "/", "p", "/", "/", "w">>
        /\ LiesInside(Workdir, call.arg)
        /\ call.path = <<"w">>
        /\ call.pc = "returned"

(***************************************************************************)
(* Properties of gitClone.                                                 *)
(***************************************************************************)
Made(c) == calls[c].pc # "idle"

GuardFailed(c) ==
    /\ calls[c].pc = "failed"
    /\ calls[c].thrown = Some([isError |-> FALSE, message |-> NotInitialized])

SshError == [isError |-> TRUE, message |-> SshNotSupported]

\* C2: a gitClone that returned holds in its result's data exactly the files
\* that clone wrote through writeFile: for each relative path the data and
\* encoding of its last write, and nothing from another clone, also when two
\* gitClone calls overlap.
C2_CloneData ==
    \A c \in 1..MaxCalls :
        calls[c].pc = "returned" => The(calls[c].result).data = calls[c].wrote

\* C3: a gitClone call fails with 'Webcontainer not initialized' exactly when
\* the ready flag returned with the callback is false; such a call does not
\* reset the file data, starts no git.clone and performs no container
\* filesystem operation; a gitClone returned with ready = true passes the guard.
C3_InitGuard ==
    /\ \A c \in 1..MaxCalls :
          Made(c) =>
              /\ GuardFailed(c) <=> ~calls[c].readyFlag
              /\ GuardFailed(c) =>
                    /\ ~calls[c].didReset
                    /\ ~calls[c].cloneStarted
                    /\ calls[c].nWrites = 0
                    /\ calls[c].wrote = EmptyMap
                    /\ calls[c].result = None
    /\ \A i \in 1..Len(returned) :
          returned[i].ready =>
              /\ returned[i].gitClone.webcontainer # None
              /\ returned[i].gitClone.fs # None
              /\ returned[i].gitClone.ready

\* C4 as stated: on an initialised hook a 'git@' URL fails with the SSH error,
\* shown as a toast and rethrown, without git.clone and without a write; every
\* failing gitClone shows exactly one error toast, rethrows and returns nothing.
C4_Original ==
    \A c \in 1..MaxCalls :
        /\ (Made(c) /\ calls[c].readyFlag /\ StartsWith(calls[c].url, GitAt)) =>
              /\ calls[c].pc = "failed"
              /\ calls[c].thrown = Some(SshError)
              /\ calls[c].toasts = <<SshNotSupported>>
              /\ ~calls[c].cloneStarted
              /\ calls[c].nWrites = 0
        /\ calls[c].pc = "failed" =>
              /\ Len(calls[c].toasts) = 1
              /\ calls[c].thrown # None
              /\ calls[c].result = None

\* C4 amended: a gitClone whose closure holds the webcontainer, fs and
\* ready = true fails on a 'git@' URL with the SSH error, shown as a toast and
\* rethrown, without git.clone and without a write; a gitClone whose closure
\* lacks one of the three fails the guard, whatever ready flag was returned
\* with it; a gitClone that fails after the guard shows one toast per
\* onAuthFailure call and then exactly one toast from its catch block (the
\* error's message, or 'Failed to clone repository' when what was thrown is no
\* Error) and rethrows; one that fails the guard throws without a toast; a
\* failing gitClone returns nothing.
C4_FailureToasts ==
    \A c \in 1..MaxCalls :
        /\ (Made(c) /\ ~notInitialized(calls[c].cb)
                    /\ StartsWith(calls[c].url, GitAt)) =>
              /\ calls[c].pc = "failed"
              /\ calls[c].thrown = Some(SshError)
              /\ calls[c].toasts = <<SshNotSupported>>
              /\ ~calls[c].cloneStarted
              /\ calls[c].nWrites = 0
        /\ (Made(c) /\ notInitialized(calls[c].cb)) => GuardFailed(c)
        /\ calls[c].pc = "failed" =>
              /\ calls[c].thrown # None
              /\ calls[c].result = None
              /\ IF GuardFailed(c)
                 THEN calls[c].toasts = <<>>
                 ELSE /\ Len(calls[c].toasts) = calls[c].nAuthFail + 1
                      /\ \A k \in 1..calls[c].nAuthFail : calls[c].toasts[k] = AuthToast
                      /\ Last(calls[c].toasts) =
                            (IF The(calls[c].thrown).isError
                             THEN The(calls[c].thrown).message
                             ELSE FailedToClone)

\* a 'git@' URL was given to a gitClone that passes the guard, and it failed
C4_Witness ==
    \E c \in 1..MaxCalls :
        /\ Made(c)
        /\ ~notInitialized(calls[c].cb)
        /\ StartsWith(calls[c].url, GitAt)
        /\ calls[c].pc = "failed"
        /\ calls[c].toasts = <<SshNotSupported>>

(***************************************************************************)
(* Workbench: the 'Push to GitHub' dialog.                                 *)
(***************************************************************************)
\* the white space and line terminators String.prototype.trim strips: space,
\* tab, LF, CR, FF, then U+000B, U+00A0, U+1680 and U+FEFF written
\* literally, then the characters that cannot be written in a string here,
\* each named by its code point
WhiteSpace ==
    {" ", "\t", "\n", "\r", "\f",
     "", " ", " ", "﻿",
     "U+2000", "U+2001", "U+2002", "U+2003", "U+2004", "U+2005", "U+2006",
     "U+2007", "U+2008", "U+2009", "U+200A", "U+2028", "U+2029", "U+202F", "U+205F", "U+3000"}

\* String.prototype.trim
RECURSIVE TrimStart(_)
TrimStart(s) ==
    IF s # <<>> /\ Head(s) \in WhiteSpace THEN TrimStart(Tail(s)) ELSE s

RECURSIVE TrimEnd(_)
TrimEnd(s) ==
    IF s # <<>> /\ s[Len(s)] \in WhiteSpace
    THEN TrimEnd(SubSeq(s, 1, Len(s) - 1))
    ELSE s

trim(s) == TrimEnd(TrimStart(s))

\* the character class of /[~^:?*[\]\\]/
invalidCharacters == {"~", "^", ":", "?", "*", "[", "]", "\\"}

isValidBranchName(branchName) ==
    /\ Len(branchName) > 0
    /\ \A i \in 1..Len(branchName) : branchName[i] \notin invalidCharacters
    /\ ~EndsWith(branchName, <<".">>)

Ghp == <<"g", "h", "p", "_">>
GithubPat == <<"g", "i", "t", "h", "u", "b", "_", "p", "a", "t", "_">>

\* what is typed into the fields
Names == {<<>>, <<" ">>, <<"\t">>, <<"r">>}
Tokens == {<<>>, Ghp \o <<"x">>, GithubPat \o <<"x">>, <<" ">> \o Ghp \o <<"x">>}
BranchAlphabet == {"b", ".", " ", "\t", "~"}
BranchNames == UNION {[1..n -> BranchAlphabet] : n \in 0..MaxBranchLen}

FillInDetails == "Please fill in all GitHub details"
InvalidTokenFormat == "Invalid token format. Please use a GitHub Personal Access Token"
EnterBranchName == "Please enter a name for the new branch"
InvalidBranchName ==
    "Invalid branch name. Please ensure it does not contain invalid characters or end with a dot."
PushSucceeded == "Successfully pushed to GitHub! View Repository"
NoSuchRepository ==
    "Cannot create a new branch in a non-existent repository. Please create the repository first."
RateLimited == "GitHub API rate limit exceeded. Please try again later."
FailedToPush == "Failed to push to GitHub"
PushCancelled == "GitHub push operation cancelled"

\* what pushToGitHub may reject with, and the texts its messages include
PushErrors == {[isError |-> TRUE, message |-> "Repository does not exist: r"],
               [isError |-> TRUE, message |-> "API rate limit exceeded"],
               [isError |-> TRUE, message |-> "Bad credentials"],
               [isError |-> FALSE, message |-> "aborted"]}
IncludesRepositoryDoesNotExist == {"Repository does not exist: r"}
IncludesRateLimit == {"API rate limit exceeded"}

Output(handler, kind, toast, push) ==
    Some([handler |-> handler, kind |-> kind, toast |-> toast, push |-> push])

\* an input's onChange, the radio buttons and the dialog's onOpenChange
SetField(field, value) ==
    /\ form.showGitHubDialog
    \* {isNewBranch && (<input ... />)}
    /\ field = "newBranchName" => form.isNewBranch
    /\ form[field] # value
    /\ form' = [form EXCEPT ![field] = value]
    /\ out' = None
    /\ UNCHANGED <<booted, hookState, queued, returned, fileData, calls, fsArg,
                   fsCalls, inFlight>>

setShowGitHubDialog(open) ==
    /\ form.showGitHubDialog # open
    /\ form' = [form EXCEPT !.showGitHubDialog = open]
    /\ out' = None
    /\ UNCHANGED <<booted, hookState, queued, returned, fileData, calls, fsArg,
                   fsCalls, inFlight>>

\* the arguments of workbenchStore.pushToGitHub
PushArgs(f) ==
    [repoName |-> trim(f.githubRepoName),
     username |-> trim(f.githubUsername),
     token |-> trim(f.githubToken),
     isPrivate |-> f.isPrivateRepo,
     branchName |-> IF f.isNewBranch THEN Some(trim(f.newBranchName)) ELSE None,
     isNewBranch |-> f.isNewBranch]

\* handleGitHubPush up to the await
handleGitHubPush ==
    /\ form.showGitHubDialog
    /\ IF form.githubRepoName = <<>> \/ form.githubUsername = <<>>
          \/ form.githubToken = <<>>
       THEN /\ out' = Output("handleGitHubPush", "error", FillInDetails, None)
            /\ UNCHANGED <<form, inFlight>>
       ELSE IF ~StartsWith(form.githubToken, Ghp)
               /\ ~StartsWith(form.githubToken, GithubPat)
       THEN /\ out' = Output("handleGitHubPush", "error", InvalidTokenFormat, None)
            /\ UNCHANGED <<form, inFlight>>
       ELSE IF form.isNewBranch /\ form.newBranchName = <<>>
       THEN /\ out' = Output("handleGitHubPush", "error", EnterBranchName, None)
            /\ UNCHANGED <<form, inFlight>>
       ELSE IF form.isNewBranch /\ ~isValidBranchName(form.newBranchName)
       THEN /\ out' = Output("handleGitHubPush", "error", InvalidBranchName, None)
            /\ UNCHANGED <<form, inFlight>>
       ELSE /\ inFlight < MaxInFlight
            /\ form' = [form EXCEPT !.isGitHubPushing = TRUE]
            /\ inFlight' = inFlight + 1
            /\ out' = Output("handleGitHubPush", "none", Undefined, Some(PushArgs(form)))
    /\ UNCHANGED <<booted, hookState, queued, returned, fileData, calls, fsArg,
                   fsCalls>>

\* pushToGitHub resolved: the success toast, the dialog closes, then finally
PushResolve ==
    /\ inFlight > 0
    /\ inFlight' = inFlight - 1
    /\ form' = [form EXCEPT !.showGitHubDialog = FALSE, !.isGitHubPushing = FALSE]
    /\ out' = Output("handleGitHubPush settled", "success", PushSucceeded, None)
    /\ UNCHANGED <<booted, hookState, queued, returned, fileData, calls, fsArg,
                   fsCalls>>

pushErrorToast(error) ==
    LET errorMessage == IF error.isError THEN error.message ELSE FailedToPush
    IN IF errorMessage \in IncludesRepositoryDoesNotExist THEN NoSuchRepository
       ELSE IF errorMessage \in IncludesRateLimit THEN RateLimited
       ELSE errorMessage

\* pushToGitHub rejected: the catch block, then finally
PushReject(error) ==
    /\ inFlight > 0
    /\ inFlight' = inFlight - 1
    /\ form' = [form EXCEPT !.isGitHubPushing = FALSE]
    /\ out' = Output("handleGitHubPush settled", "error", pushErrorToast(error), None)
    /\ UNCHANGED <<booted, hookState, queued, returned, fileData, calls, fsArg,
                   fsCalls>>

handleCancelPush ==
    /\ form.showGitHubDialog
    /\ form' = [form EXCEPT !.showGitHubDialog = FALSE, !.isGitHubPushing = FALSE]
    /\ out' = IF form.isGitHubPushing
              THEN Output("handleCancelPush", "info", PushCancelled, None)
              ELSE Output("handleCancelPush", "none", Undefined, None)
    /\ UNCHANGED <<booted, hookState, queued, returned, fileData, calls, fsArg,
                   fsCalls, inFlight>>

NextPush ==
    \/ \E v \in Names : SetField("githubRepoName", v)
    \/ \E v \in Names : SetField("githubUsername", v)
    \/ \E v \in Tokens : SetField("githubToken", v)
    \/ \E v \in BOOLEAN : SetField("isPrivateRepo", v)
    \/ \E v \in BOOLEAN : SetField("isNewBranch", v)
    \/ \E v \in BranchNames : SetField("newBranchName", v)
    \/ \E open \in BOOLEAN : setShowGitHubDialog(open)
    \/ handleGitHubPush
    \/ PushResolve
    \/ \E error \in PushErrors : PushReject(error)
    \/ handleCancelPush

SpecPush == Init /\ [][NextPush]_vars

(***************************************************************************)
(* Properties of the push dialog.                                          *)
(***************************************************************************)
\* the handler that ran last was handleGitHubPush's validation of the form
Validated(o) == o.handler = "handleGitHubPush"

\* C5: whenever pushToGitHub is invoked the repository name, username and
\* token it receives are non-empty and the token starts with 'ghp_' or
\* 'github_pat_'; with a detail missing or a wrong token format an error toast
\* is shown, pushToGitHub is not invoked and isGitHubPushing stays false.
C5_PushDetails ==
    \A o \in out :
        /\ \A a \in o.push :
              /\ a.repoName # <<>>
              /\ a.username # <<>>
              /\ a.token # <<>>
              /\ StartsWith(a.token, Ghp) \/ StartsWith(a.token, GithubPat)
        /\ (/\ Validated(o)
            /\ \/ <<>> \in {form.githubRepoName, form.githubUsername, form.githubToken}
               \/ ~(StartsWith(form.githubToken, Ghp)
                     \/ StartsWith(form.githubToken, GithubPat))) =>
              /\ o.kind = "error"
              /\ o.push = None
              /\ inFlight = 0 => ~form.isGitHubPushing

\* the characters C6 names
C6Characters == {"~", "^", ":", "?", "*", "[", "\\"}

C6NameOk(name) ==
    /\ name # <<>>
    /\ \A i \in 1..Len(name) : name[i] \notin C6Characters
    /\ ~EndsWith(name, <<".">>)

\* C6: with 'New Branch' selected the branch name pushToGitHub receives is
\* non-empty, has none of ~ ^ : ? * [ \ and does not end with a dot, and a
\* name breaking a rule gives an error toast and no call; without 'New Branch'
\* pushToGitHub receives an undefined branch name.
C6_BranchName ==
    \A o \in out :
        /\ \A a \in o.push :
              IF a.isNewBranch
              THEN a.branchName # None /\ C6NameOk(The(a.branchName))
              ELSE a.branchName = None
        /\ (Validated(o) /\ form.isNewBranch /\ ~C6NameOk(form.newBranchName)) =>
              o.kind = "error" /\ o.push = None

====
